---- MODULE Spec2Model ----
(***************************************************************************)
(* A model of fetch-wkhtmltopdf-lib.py (nccgroup/scrying): one run of      *)
(* main() is a process that walks the statements of main() in order; the   *)
(* filesystem, the HTTP server and the external extraction tools are the   *)
(* shared environment.  Paths are sequences of path components, relative   *)
(* to the directory in which the runs are started (the empty sequence).    *)
(***************************************************************************)
EXTENDS Integers, Sequences, FiniteSets, TLC

(* ------------------------------ bounds --------------------------------- *)
\* number of runs of the script the model follows
NumRuns == 2
\* longest response body the server sends, in bytes
MaxBody == 2
\* largest chunk iter_content hands out (1024 in the source, scaled down)
ChunkSize == 2

(* ----------------------------- constants ------------------------------- *)
\* requests.codes.ok
HttpOk == 200
\* length of the spinner cycle ['-', '/', '|', '\\']
SpinnerLen == 4

Procs == 1..NumRuns
Platforms == {"linux", "windows", "macos"}
\* the values the positional argument "os" takes: the three platforms and
\* one representative of everything else
Args == Platforms \cup {"freebsd"}
\* the status codes the server answers with: success, and 404 for the rest
Statuses == {HttpOk, 404}

\* the bodies the server sends: the code never looks into a byte, so byte i of
\* a body is i, which tells a dropped, doubled or misplaced byte from the rest
\* (0 is what a hole in a file reads as)
Bodies == {[i \in 1..n |-> i] : n \in 0..MaxBody}

\* URLs of the built artefacts, as the list url.split('/') yields
artefacts ==
  [ linux   |-> <<"https:", "", "github.com", "wkhtmltopdf", "packaging", "releases",
                  "download", "0.12.6-1", "wkhtmltox_0.12.6-1.bionic_amd64.deb">>,
    windows |-> <<"https:", "", "github.com", "wkhtmltopdf", "packaging", "releases",
                  "download", "0.12.6-1", "wkhtmltox-0.12.6-1.msvc2015-win64.exe">>,
    macos   |-> <<"https:", "", "github.com", "wkhtmltopdf", "packaging", "releases",
                  "download", "0.12.6-1", "wkhtmltox-0.12.6-1.macos-cocoa.pkg">> ]

\* "target/shared_lib"
CacheDir == <<"target", "shared_lib">>

\* filename = artefacts[args.os].split('/')[-1]
filename(o) == artefacts[o][Len(artefacts[o])]

\* filepath = "target/shared_lib/" + filename
filepath(o) == CacheDir \o <<filename(o)>>

\* the path each branch hands to shutil.copy as its source
LibSource(o) ==
  CASE o = "linux"   -> CacheDir \o <<"usr", "local", "lib", "libwkhtmltox.so">>
    [] o = "windows" -> CacheDir \o <<"wkhtmltox.dll">>
    [] o = "macos"   -> CacheDir \o <<"usr", "local", "share", "wkhtmltox-installer",
                                      "lib", "libwkhtmltox.0.dylib">>

\* "usr/local/share/wkhtmltox-installer"
InstallerDir == <<"usr", "local", "share", "wkhtmltox-installer">>

(* ------------------------------ state ---------------------------------- *)
VARIABLES
  pc,        \* pc[p]: the statement run p executes next
  os,        \* args.os of run p
  cwd,       \* the working directory of the process of run p
  oldpwd,    \* the local oldpwd of run p
  resp,      \* response: its status code and the body not yet iterated
  wbuf,      \* bytes given to file.write that the writer has not flushed yet
  fpos,      \* the offset in the file at which the writer flushes next
  spin,      \* position in the spinner cycle
  out,       \* the lines run p has printed
  toolrc,    \* the results of the os.system calls of run p (all discarded)
  requests,  \* the number of HTTP requests run p has issued
  files,     \* the regular files: path -> content
  dirs,      \* the directories
  exc,       \* the uncaught exception that ended run p: its type and its line
  snap       \* files and dirs as run p found them when it started

vars == <<pc, os, cwd, oldpwd, resp, wbuf, fpos, spin, out, toolrc, requests,
          files, dirs, exc, snap>>

Final == {"exited", "done", "raised", "killed"}
Running(p) == pc[p] \notin (Final \cup {"idle"})

NoResp == [status |-> 0, body |-> <<>>, read |-> 0]
NoExc == [type |-> "", line |-> ""]
NoFiles == [x \in {} |-> <<>>]

(* --------------------------- path helpers ------------------------------ *)
Min(a, b) == IF a < b THEN a ELSE b

\* a relative path seen from the working directory d
Abs(d, rel) == d \o rel

\* the directories above a path
Parents(path) == {SubSeq(path, 1, n) : n \in 0..(Len(path) - 1)}

IsFile(path) == path \in DOMAIN files

\* a write of data at offset pos of a file that holds old
WriteAt(old, pos, data) ==
  LET n == IF Len(old) > pos + Len(data) THEN Len(old) ELSE pos + Len(data)
  IN  [i \in 1..n |->
         IF i > pos /\ i <= pos + Len(data) THEN data[i - pos]
         ELSE IF i <= Len(old) THEN old[i]
         ELSE 0]

\* what an extraction tool writes: the named member of the archive it read
Unpack(name, content) == [member |-> name, from |-> content]
Nested(name, content) == [member |-> name, from |-> content.from]

Init ==
  /\ pc = [p \in Procs |-> "idle"]
  /\ os = [p \in Procs |-> "linux"]
  /\ cwd = [p \in Procs |-> <<>>]
  /\ oldpwd = [p \in Procs |-> <<>>]
  /\ resp = [p \in Procs |-> NoResp]
  /\ wbuf = [p \in Procs |-> <<>>]
  /\ fpos = [p \in Procs |-> 0]
  /\ spin = [p \in Procs |-> 0]
  /\ out = [p \in Procs |-> <<>>]
  /\ toolrc = [p \in Procs |-> <<>>]
  /\ requests = [p \in Procs |-> 0]
  /\ files = NoFiles
  /\ dirs = {<<>>}
  /\ exc = [p \in Procs |-> NoExc]
  /\ snap = [p \in Procs |-> [files |-> NoFiles, dirs |-> {<<>>}]]

(* ------------------------- statements of main -------------------------- *)
Goto(p, label) == pc' = [pc EXCEPT ![p] = label] /\ UNCHANGED exc

\* an exception nobody catches ends the run at the line that raised it
Raise(p, type) ==
  /\ pc' = [pc EXCEPT ![p] = "raised"]
  /\ exc' = [exc EXCEPT ![p] = [type |-> type, line |-> pc[p]]]
Emit(p, line) == out' = [out EXCEPT ![p] = Append(@, line)]

\* lines 36-38: parse_args; the process starts in the directory of the caller
ParseArgs(p, a) ==
  /\ pc[p] = "idle"
  /\ os' = [os EXCEPT ![p] = a]
  /\ cwd' = [cwd EXCEPT ![p] = <<>>]
  /\ snap' = [snap EXCEPT ![p] = [files |-> files, dirs |-> dirs]]
  /\ Goto(p, "l40")
  /\ UNCHANGED <<oldpwd, resp, wbuf, fpos, spin, out, toolrc, requests, files, dirs>>

\* a run started while no other run is in progress (runs are numbered in the
\* order in which they start)
StartAlone(p, a) ==
  /\ \A q \in Procs : ~Running(q) /\ (q < p => pc[q] # "idle")
  /\ ParseArgs(p, a)

\* a run started while another run for the same platform may be in progress
StartBeside(p, a) ==
  /\ \A q \in Procs : (pc[q] # "idle" => os[q] = a) /\ (q < p => pc[q] # "idle")
  /\ ParseArgs(p, a)

\* CheckOs without its test: every argument passes
CheckOsAcceptsAll(p) ==
  /\ pc[p] = "l40"
  /\ Goto(p, "l45")
  /\ UNCHANGED <<os, cwd, oldpwd, resp, wbuf, fpos, spin, out, toolrc, requests,
                 files, dirs, snap>>

\* lines 40-42: if args.os not in [...]: print(...); exit()
CheckOs(p) ==
  /\ pc[p] = "l40"
  /\ IF os[p] \notin {"linux", "windows", "macos"}
       THEN Emit(p, "OS must be one of") /\ Goto(p, "exited")
       ELSE UNCHANGED out /\ Goto(p, "l45")
  /\ UNCHANGED <<os, cwd, oldpwd, resp, wbuf, fpos, spin, toolrc, requests,
                 files, dirs, snap>>

\* line 45: pathlib.Path("target/shared_lib").mkdir(parents=True, exist_ok=True)
Mkdir(p) ==
  /\ pc[p] = "l45"
  /\ dirs' = dirs \cup {Abs(cwd[p], CacheDir)} \cup Parents(Abs(cwd[p], CacheDir))
  /\ Goto(p, "l50")
  /\ UNCHANGED <<os, cwd, oldpwd, resp, wbuf, fpos, spin, out, toolrc, requests,
                 files, snap>>

\* CheckCached without its test: the download is never skipped
CheckCachedAlwaysDownloads(p) ==
  /\ pc[p] = "l50"
  /\ Goto(p, "l51")
  /\ UNCHANGED <<os, cwd, oldpwd, resp, wbuf, fpos, spin, out, toolrc, requests,
                 files, dirs, snap>>

\* CheckCached that takes an empty file for no file
CheckCachedNonEmpty(p) ==
  /\ pc[p] = "l50"
  /\ IF ~IsFile(Abs(cwd[p], filepath(os[p])))
        \/ files[Abs(cwd[p], filepath(os[p]))] = <<>>
       THEN UNCHANGED out /\ Goto(p, "l51")
       ELSE Emit(p, "File already exists, skipping download") /\ Goto(p, "l67")
  /\ UNCHANGED <<os, cwd, oldpwd, resp, wbuf, fpos, spin, toolrc, requests,
                 files, dirs, snap>>

\* lines 48-50 and 64-65: if not pathlib.Path(filepath).is_file(): ... else: print
CheckCached(p) ==
  /\ pc[p] = "l50"
  /\ IF ~IsFile(Abs(cwd[p], filepath(os[p])))
       THEN UNCHANGED out /\ Goto(p, "l51")
       ELSE Emit(p, "File already exists, skipping download") /\ Goto(p, "l67")
  /\ UNCHANGED <<os, cwd, oldpwd, resp, wbuf, fpos, spin, toolrc, requests,
                 files, dirs, snap>>

\* Get behind a lock: it waits while another run is downloading
GetLocked(p) ==
  /\ pc[p] = "l51"
  /\ \A q \in Procs : q # p => pc[q] \notin {"l52", "l57", "l59"}
  /\ requests' = [requests EXCEPT ![p] = @ + 1]
  /\ \E st \in Statuses, b \in Bodies :
       /\ st # HttpOk => b = <<>>
       /\ resp' = [resp EXCEPT ![p] = [status |-> st, body |-> b, read |-> 0]]
  /\ Goto(p, "l52")
  /\ UNCHANGED <<os, cwd, oldpwd, wbuf, fpos, spin, out, toolrc, files, dirs, snap>>

\* line 51: response = requests.get(artefacts[args.os], stream=True)
Get(p) ==
  /\ pc[p] = "l51"
  /\ requests' = [requests EXCEPT ![p] = @ + 1]
  /\ \E st \in Statuses, b \in Bodies :
       \* the body of an error response is never read
       /\ st # HttpOk => b = <<>>
       /\ resp' = [resp EXCEPT ![p] = [status |-> st, body |-> b, read |-> 0]]
  /\ Goto(p, "l52")
  /\ UNCHANGED <<os, cwd, oldpwd, wbuf, fpos, spin, out, toolrc, files, dirs, snap>>

\* lines 52-55: the status check.  Line 53 adds the int status_code to a str,
\* which raises TypeError before print is called: nothing is printed and the
\* run ends with the uncaught exception instead of reaching exit()
CheckStatus(p) ==
  /\ pc[p] = "l52"
  /\ IF resp[p].status # HttpOk
       THEN UNCHANGED out /\ Raise(p, "TypeError")
       ELSE Emit(p, "Saving as") /\ Goto(p, "l57")
  /\ UNCHANGED <<os, cwd, oldpwd, resp, wbuf, fpos, spin, toolrc, requests,
                 files, dirs, snap>>

\* lines 57-58: with open(filepath, "wb") as file: creates or truncates the file
Open(p) ==
  /\ pc[p] = "l57"
  /\ files' = (Abs(cwd[p], filepath(os[p])) :> <<>>) @@ files
  /\ fpos' = [fpos EXCEPT ![p] = 0]
  /\ wbuf' = [wbuf EXCEPT ![p] = <<>>]
  /\ spin' = [spin EXCEPT ![p] = 0]
  /\ Goto(p, "l59")
  /\ UNCHANGED <<os, cwd, oldpwd, resp, out, toolrc, requests, dirs, snap>>

\* the writer's buffer goes to the file at the writer's own offset
Flushed(p) == (Abs(cwd[p], filepath(os[p])) :>
                 WriteAt(files[Abs(cwd[p], filepath(os[p]))], fpos[p], wbuf[p])) @@ files

\* the part of the body iter_content has not handed out yet
Unread(p) == SubSeq(resp[p].body, resp[p].read + 1, Len(resp[p].body))

\* WriteChunk with the file opened inside the loop: every flush starts the
\* file anew
WriteChunkTruncating(p) ==
  /\ pc[p] = "l59"
  /\ Unread(p) # <<>>
  /\ \E n \in 1..Min(ChunkSize, Len(Unread(p))), flush \in BOOLEAN :
       LET chunk == SubSeq(Unread(p), 1, n)
           buf   == wbuf[p] \o chunk
           path  == Abs(cwd[p], filepath(os[p]))
       IN  /\ resp' = [resp EXCEPT ![p].read = @ + n]
           /\ IF flush
                THEN /\ files' = (path :> buf) @@ files
                     /\ fpos' = [fpos EXCEPT ![p] = Len(buf)]
                     /\ wbuf' = [wbuf EXCEPT ![p] = <<>>]
                ELSE /\ wbuf' = [wbuf EXCEPT ![p] = buf]
                     /\ UNCHANGED <<files, fpos>>
  /\ spin' = [spin EXCEPT ![p] = (@ + 1) % SpinnerLen]
  /\ UNCHANGED <<pc, exc, os, cwd, oldpwd, out, toolrc, requests, dirs, snap>>

\* lines 59-63: one turn of the loop over response.iter_content(1024): the
\* spinner advances and the chunk goes to the buffered writer, which flushes
\* when it chooses to
WriteChunk(p) ==
  /\ pc[p] = "l59"
  /\ Unread(p) # <<>>
  /\ \E n \in 1..Min(ChunkSize, Len(Unread(p))), flush \in BOOLEAN :
       LET chunk == SubSeq(Unread(p), 1, n)
           buf   == wbuf[p] \o chunk
           path  == Abs(cwd[p], filepath(os[p]))
       IN  /\ resp' = [resp EXCEPT ![p].read = @ + n]
           /\ IF flush
                THEN /\ files' = (path :> WriteAt(files[path], fpos[p], buf)) @@ files
                     /\ fpos' = [fpos EXCEPT ![p] = @ + Len(buf)]
                     /\ wbuf' = [wbuf EXCEPT ![p] = <<>>]
                ELSE /\ wbuf' = [wbuf EXCEPT ![p] = buf]
                     /\ UNCHANGED <<files, fpos>>
  /\ spin' = [spin EXCEPT ![p] = (@ + 1) % SpinnerLen]
  /\ UNCHANGED <<pc, exc, os, cwd, oldpwd, out, toolrc, requests, dirs, snap>>

\* line 59 at the end of the body, and the exit of the with block: the file is
\* flushed and closed; the spinner is not used again
Close(p) ==
  /\ pc[p] = "l59"
  /\ Unread(p) = <<>>
  /\ files' = Flushed(p)
  /\ fpos' = [fpos EXCEPT ![p] = 0]
  /\ wbuf' = [wbuf EXCEPT ![p] = <<>>]
  /\ spin' = [spin EXCEPT ![p] = 0]
  /\ Goto(p, "l67")
  /\ UNCHANGED <<os, cwd, oldpwd, resp, out, toolrc, requests, dirs, snap>>

\* lines 67, 68, 71, 77: print("Download complete, extracting library...") and
\* the choice of the branch
Dispatch(p) ==
  /\ pc[p] = "l67"
  /\ Emit(p, "Download complete, extracting library...")
  /\ Goto(p, CASE os[p] = "linux" -> "l69"
               [] os[p] = "windows" -> "l72"
               [] os[p] = "macos" -> "l78")
  /\ UNCHANGED <<os, cwd, oldpwd, resp, wbuf, fpos, spin, toolrc, requests,
                 files, dirs, snap>>

(* ------------------ the calls the extraction branches make -------------- *)
\* System that looks at the exit status and raises when the tool failed
SystemChecked(p, input, outputs, next) ==
  \E ok \in BOOLEAN :
    LET success == ok /\ IsFile(input)
    IN  /\ files' = IF success THEN outputs @@ files ELSE files
        /\ dirs' = IF success
                     THEN dirs \cup UNION {Parents(f) : f \in DOMAIN outputs}
                     ELSE dirs
        /\ toolrc' = [toolrc EXCEPT ![p] = Append(@, IF success THEN 0 ELSE 1)]
        /\ IF success THEN Goto(p, next) ELSE Raise(p, "CalledProcessError")
        /\ UNCHANGED <<os, cwd, oldpwd, resp, wbuf, fpos, spin, out, requests, snap>>

\* os.system(cmd): the tool runs in the working directory of the run; it reads
\* the file input and, when it succeeds, writes outputs and the directories
\* above them.  Its exit status is returned and the caller drops it.  A tool
\* whose input is missing fails; a tool whose input is there may fail as well
\* (tool not installed, corrupt archive).
System(p, input, outputs, next) ==
  \E ok \in BOOLEAN :
    LET success == ok /\ IsFile(input)
    IN  /\ files' = IF success THEN outputs @@ files ELSE files
        /\ dirs' = IF success
                     THEN dirs \cup UNION {Parents(f) : f \in DOMAIN outputs}
                     ELSE dirs
        /\ toolrc' = [toolrc EXCEPT ![p] = Append(@, IF success THEN 0 ELSE 1)]
        /\ Goto(p, next)
        /\ UNCHANGED <<os, cwd, oldpwd, resp, wbuf, fpos, spin, out, requests, snap>>

\* oldpwd = os.getcwd(); os.chdir(rel): FileNotFoundError when rel is no directory
GetcwdChdir(p, rel, next) ==
  /\ oldpwd' = [oldpwd EXCEPT ![p] = cwd[p]]
  /\ IF Abs(cwd[p], rel) \in dirs
       THEN cwd' = [cwd EXCEPT ![p] = Abs(cwd[p], rel)] /\ Goto(p, next)
       ELSE UNCHANGED cwd /\ Raise(p, "FileNotFoundError")
  /\ UNCHANGED <<os, resp, wbuf, fpos, spin, out, toolrc, requests, files, dirs, snap>>

\* os.chdir(rel): FileNotFoundError when rel is no directory
Chdir(p, rel, next) ==
  /\ IF Abs(cwd[p], rel) \in dirs
       THEN cwd' = [cwd EXCEPT ![p] = Abs(cwd[p], rel)] /\ Goto(p, next)
       ELSE UNCHANGED cwd /\ Raise(p, "FileNotFoundError")
  /\ UNCHANGED <<os, oldpwd, resp, wbuf, fpos, spin, out, toolrc, requests,
                 files, dirs, snap>>

\* os.chdir(oldpwd): oldpwd is an absolute path
ChdirBack(p, next) ==
  /\ cwd' = [cwd EXCEPT ![p] = oldpwd[p]]
  /\ Goto(p, next)
  /\ UNCHANGED <<os, oldpwd, resp, wbuf, fpos, spin, out, toolrc, requests,
                 files, dirs, snap>>

\* shutil.copy(src, "."): FileNotFoundError when src is no file; else the file
\* of the same name in the working directory is created or overwritten
ShutilCopy(p, src, next) ==
  /\ IF IsFile(Abs(cwd[p], src))
       THEN /\ files' = (Abs(cwd[p], <<src[Len(src)]>>) :> files[Abs(cwd[p], src)]) @@ files
            /\ Goto(p, next)
       ELSE /\ UNCHANGED files
            /\ Raise(p, "FileNotFoundError")
  /\ UNCHANGED <<os, cwd, oldpwd, resp, wbuf, fpos, spin, out, toolrc, requests,
                 dirs, snap>>

(* ------------------------------- linux --------------------------------- *)
\* line 69: os.system("dpkg-deb -x " + filepath + " target/shared_lib/")
DpkgDeb(p) ==
  /\ pc[p] = "l69"
  /\ LET input == Abs(cwd[p], filepath(os[p]))
         lib   == Abs(cwd[p], CacheDir \o <<"usr", "local", "lib", "libwkhtmltox.so">>)
     IN  System(p, input,
                IF IsFile(input) THEN lib :> Unpack("libwkhtmltox.so", files[input])
                                 ELSE NoFiles,
                "l70")

\* line 70: shutil.copy("target/shared_lib/usr/local/lib/libwkhtmltox.so", ".")
CopyLinux(p) ==
  /\ pc[p] = "l70"
  /\ ShutilCopy(p, LibSource("linux"), "l86")

(* ------------------------------ windows -------------------------------- *)
\* lines 72-73: oldpwd = os.getcwd(); os.chdir("target/shared_lib")
WinChdirCache(p) ==
  /\ pc[p] = "l72"
  /\ GetcwdChdir(p, CacheDir, "l74")

\* line 74: os.system("7z e " + filename)
SevenZip(p) ==
  /\ pc[p] = "l74"
  /\ LET input == Abs(cwd[p], <<filename(os[p])>>)
         lib   == Abs(cwd[p], <<"wkhtmltox.dll">>)
     IN  System(p, input,
                IF IsFile(input) THEN lib :> Unpack("wkhtmltox.dll", files[input])
                                 ELSE NoFiles,
                "l75")

\* WinChdirBack left out: the run stays in the cache directory
WinChdirBackForgotten(p) ==
  /\ pc[p] = "l75"
  /\ Goto(p, "l76")
  /\ UNCHANGED <<os, cwd, oldpwd, resp, wbuf, fpos, spin, out, toolrc, requests,
                 files, dirs, snap>>

\* line 75: os.chdir(oldpwd)
WinChdirBack(p) ==
  /\ pc[p] = "l75"
  /\ ChdirBack(p, "l76")

\* line 76: shutil.copy("target/shared_lib/wkhtmltox.dll", ".")
CopyWindows(p) ==
  /\ pc[p] = "l76"
  /\ ShutilCopy(p, LibSource("windows"), "l86")

(* ------------------------------- macos --------------------------------- *)
\* lines 78-79: oldpwd = os.getcwd(); os.chdir("target/shared_lib")
MacChdirCache(p) ==
  /\ pc[p] = "l78"
  /\ GetcwdChdir(p, CacheDir, "l80")

\* line 80: os.system("xar -xf " + filename)
Xar(p) ==
  /\ pc[p] = "l80"
  /\ LET input == Abs(cwd[p], <<filename(os[p])>>)
     IN  System(p, input,
                IF IsFile(input)
                  THEN Abs(cwd[p], <<"Payload">>) :> Unpack("Payload", files[input])
                  ELSE NoFiles,
                "l81")

\* line 81: os.system("tar -xzf Payload")
TarPayload(p) ==
  /\ pc[p] = "l81"
  /\ LET input == Abs(cwd[p], <<"Payload">>)
     IN  System(p, input,
                IF IsFile(input)
                  THEN Abs(cwd[p], InstallerDir \o <<"wkhtmltox.tar.gz">>)
                         :> Nested("wkhtmltox.tar.gz", files[input])
                  ELSE NoFiles,
                "l82")

\* line 82: os.chdir("usr/local/share/wkhtmltox-installer")
MacChdirInstaller(p) ==
  /\ pc[p] = "l82"
  /\ Chdir(p, InstallerDir, "l83")

\* line 83: os.system("tar -xzf wkhtmltox.tar.gz")
TarInner(p) ==
  /\ pc[p] = "l83"
  /\ LET input == Abs(cwd[p], <<"wkhtmltox.tar.gz">>)
     IN  System(p, input,
                IF IsFile(input)
                  THEN Abs(cwd[p], <<"lib", "libwkhtmltox.0.dylib">>)
                         :> Nested("libwkhtmltox.0.dylib", files[input])
                  ELSE NoFiles,
                "l84")

\* line 84: os.chdir(oldpwd)
MacChdirBack(p) ==
  /\ pc[p] = "l84"
  /\ ChdirBack(p, "l85")

\* line 85: shutil.copy("target/shared_lib/usr/.../lib/libwkhtmltox.0.dylib", ".")
CopyMacos(p) ==
  /\ pc[p] = "l85"
  /\ ShutilCopy(p, LibSource("macos"), "l86")

\* PrintComplete that reports success only when every tool succeeded
PrintCompleteIfToolsOk(p) ==
  /\ pc[p] = "l86"
  /\ IF \A i \in 1..Len(toolrc[p]) : toolrc[p][i] = 0
       THEN Emit(p, "Extraction complete!")
       ELSE UNCHANGED out
  /\ Goto(p, "done")
  /\ UNCHANGED <<os, cwd, oldpwd, resp, wbuf, fpos, spin, toolrc, requests,
                 files, dirs, snap>>

\* line 86: print("Extraction complete!"), after which main returns
PrintComplete(p) ==
  /\ pc[p] = "l86"
  /\ Emit(p, "Extraction complete!")
  /\ Goto(p, "done")
  /\ UNCHANGED <<os, cwd, oldpwd, resp, wbuf, fpos, spin, toolrc, requests,
                 files, dirs, snap>>

\* the process of a run is terminated from outside in the middle of the
\* download: its writer (with what it had not flushed) and its spinner are
\* gone with it; resp stays as the record of what the server was sending
Kill(p) ==
  /\ pc[p] = "l59"
  /\ wbuf' = [wbuf EXCEPT ![p] = <<>>]
  /\ fpos' = [fpos EXCEPT ![p] = 0]
  /\ spin' = [spin EXCEPT ![p] = 0]
  /\ Goto(p, "killed")
  /\ UNCHANGED <<os, cwd, oldpwd, resp, out, toolrc, requests, files, dirs, snap>>

(* --------------------------- specifications ---------------------------- *)
Step(p) ==
  \/ CheckOs(p) \/ Mkdir(p) \/ CheckCached(p) \/ Get(p) \/ CheckStatus(p)
  \/ Open(p) \/ WriteChunk(p) \/ Close(p) \/ Dispatch(p)
  \/ DpkgDeb(p) \/ CopyLinux(p)
  \/ WinChdirCache(p) \/ SevenZip(p) \/ WinChdirBack(p) \/ CopyWindows(p)
  \/ MacChdirCache(p) \/ Xar(p) \/ TarPayload(p) \/ MacChdirInstaller(p)
  \/ TarInner(p) \/ MacChdirBack(p) \/ CopyMacos(p)
  \/ PrintComplete(p)

\* runs one after the other, any of which may be terminated from outside
Next ==
  \E p \in Procs :
    \/ \E a \in Args : StartAlone(p, a)
    \/ Step(p)
    \/ Kill(p)

Spec == Init /\ [][Next]_vars

\* two runs for one platform side by side
NextConc ==
  \E p \in {q \in Procs : q <= 2} :
    \/ \E a \in Platforms : StartBeside(p, a)
    \/ Step(p)

SpecConc == Init /\ [][NextConc]_vars

(* ------------------------ notions the claims use ----------------------- *)
Printed(p, line) == \E i \in 1..Len(out[p]) : out[p][i] = line

\* no run was started after run p
Latest(p) == \A q \in Procs : q > p => pc[q] = "idle"

Valid(p) == pc[p] # "idle" /\ os[p] \in Platforms

\* the file the run installs: the last component of its copy source, in the
\* directory the run was started in
Installed(o) == <<LibSource(o)[Len(LibSource(o))]>>

\* the cache file was there when run p started
CachedAtStart(p) == Valid(p) /\ filepath(os[p]) \in DOMAIN snap[p].files

ToolLines == {"l69", "l74", "l80", "l81", "l83"}
CopyLines == {"l70", "l76", "l85"}

\* run p got to the copy step: it is at it, or past it, or the copy raised
AtOrPastCopy(p) ==
  \/ pc[p] \in CopyLines \cup {"l86", "done"}
  \/ pc[p] = "raised" /\ exc[p].line \in CopyLines

SomeToolFailed(p) == \E i \in 1..Len(toolrc[p]) : toolrc[p][i] # 0
AllToolsOk(p) == \A i \in 1..Len(toolrc[p]) : toolrc[p][i] = 0

\* run p has left the file at path as it found it
Untouched(p, path) ==
  IF path \in DOMAIN snap[p].files
    THEN path \in DOMAIN files /\ files[path] = snap[p].files[path]
    ELSE path \notin DOMAIN files

(* ------------------------------- claims -------------------------------- *)
\* C1: a run whose platform argument is none of linux, windows, macos prints
\* the error message and ends; it creates no directory and no file, issues no
\* HTTP request and invokes no extraction tool.
C1_InvalidOsNoSideEffect ==
  \A p \in Procs :
    (pc[p] # "idle" /\ os[p] \notin Platforms) =>
      /\ pc[p] \in {"l40", "exited"}
      /\ pc[p] = "exited" => out[p] = <<"OS must be one of">>
      /\ requests[p] = 0
      /\ toolrc[p] = <<>>
      /\ Latest(p) => files = snap[p].files /\ dirs = snap[p].dirs

\* a run with an invalid argument has ended, in a directory where an earlier
\* run had not yet left anything
C1_Witness ==
  \E p \in Procs :
    /\ pc[p] = "exited" /\ os[p] = "freebsd"
    /\ out[p] # <<>> /\ dirs = {<<>>}

\* C2: a run whose GET is answered with a status other than 200 prints the
\* unexpected-status message and ends without creating the destination file
\* and without running any extraction or copy step.
C2_Non200PrintsMessage ==
  \A p \in Procs :
    (pc[p] \in Final /\ requests[p] > 0 /\ resp[p].status # HttpOk) =>
      /\ Printed(p, "Received unexpected response code")
      /\ exc[p] = NoExc
      /\ Untouched(p, filepath(os[p]))
      /\ toolrc[p] = <<>>
      /\ ~AtOrPastCopy(p)

\* C3 as claimed: a run that finds the cache file at its start issues no HTTP
\* request, leaves the file as it is and, once over, has invoked the extraction
\* and has got to the copy step.
C3_CachedSkipsAndCopies ==
  \A p \in Procs :
    CachedAtStart(p) =>
      /\ requests[p] = 0
      /\ Latest(p) => Untouched(p, filepath(os[p]))
      /\ pc[p] \in Final => toolrc[p] # <<>> /\ AtOrPastCopy(p)

\* C3 as amended: a run that finds the cache file at its start issues no HTTP
\* request, leaves the file as it is and, once over, has invoked the extraction;
\* it has got to the copy step too, unless it is a macos run that line 82 ended
\* (the chdir into the directory the extraction should have made).
C3_CachedSkipsAndExtracts ==
  \A p \in Procs :
    CachedAtStart(p) =>
      /\ requests[p] = 0
      /\ Latest(p) => Untouched(p, filepath(os[p]))
      /\ pc[p] \in Final =>
           /\ toolrc[p] # <<>>
           /\ \/ AtOrPastCopy(p)
              \/ /\ os[p] = "macos"
                 /\ exc[p] = [type |-> "FileNotFoundError", line |-> "l82"]
                 /\ Latest(p) => Abs(CacheDir, InstallerDir) \notin dirs

\* a run that found the cache file is over: it printed the skip notice, ran its
\* tool and copied
C3_Witness ==
  \E p \in Procs :
    /\ CachedAtStart(p) /\ pc[p] = "done"
    /\ Printed(p, "File already exists, skipping download")
    /\ toolrc[p] # <<>>

\* C4: with the cache file absent and a 200 answer, what the writer has taken
\* so far is what iter_content has handed out so far, in order, and once the
\* download is over the cache file is the body, byte for byte.
C4_FileIsConcatenationOfChunks ==
  \A p \in Procs :
    (Latest(p) /\ requests[p] > 0 /\ resp[p].status = HttpOk) =>
      /\ pc[p] = "l59" =>
           WriteAt(files[filepath(os[p])], fpos[p], wbuf[p])
             = SubSeq(resp[p].body, 1, resp[p].read)
      /\ pc[p] \notin {"l52", "l57", "l59", "killed"} =>
           /\ IsFile(filepath(os[p]))
           /\ files[filepath(os[p])] = resp[p].body

\* a body of two or more bytes has gone to the file in two chunks, the loop is
\* at its end and the file is the body
C4_Witness ==
  \E p \in Procs :
    /\ pc[p] = "l59" /\ requests[p] = 1 /\ resp[p].status = HttpOk
    /\ Len(resp[p].body) >= 2 /\ resp[p].read = Len(resp[p].body)
    /\ spin[p] = 2 /\ wbuf[p] = <<>>
    /\ files[filepath(os[p])] = resp[p].body

\* C5: when a run whose tools all succeeded copies the library over one that an
\* earlier run for the same platform installed, the installed file keeps its
\* content; that run skipped the download.
C5_SecondRunSameLibrary ==
  [][\A p \in Procs :
       ( /\ pc[p] \in CopyLines /\ pc'[p] = "l86"
         /\ AllToolsOk(p)
         /\ IsFile(Installed(os[p])) ) =>
           /\ files'[Installed(os[p])] = files[Installed(os[p])]
           /\ requests[p] = 0
           /\ Printed(p, "File already exists, skipping download")]_vars

\* two runs for one platform are over, the first downloaded, the second did
\* not, the tools of both succeeded and the library is installed
C5_Witness ==
  \E p, q \in Procs :
    /\ p < q /\ os[p] = os[q]
    /\ pc[p] = "done" /\ pc[q] = "done"
    /\ requests[p] = 1 /\ requests[q] = 0
    /\ AllToolsOk(p) /\ AllToolsOk(q)
    /\ Len(resp[p].body) > 0
    /\ files[Installed(os[q])] = files[LibSource(os[q])]

\* C6 as claimed: every run that got to the extraction phase and is over has
\* printed "Extraction complete!".
C6_CompleteAlwaysPrinted ==
  \A p \in Procs :
    (pc[p] \in Final /\ Printed(p, "Download complete, extracting library...")) =>
      Printed(p, "Extraction complete!")

\* C6 as amended: a run that got to the extraction phase and is over has
\* printed "Extraction complete!" exactly if no statement of its branch raised;
\* what raises is the copy, or line 82 of the macos branch, with
\* FileNotFoundError.  The exit statuses of the tools play no part.
C6_CompletePrintedUnlessRaised ==
  \A p \in Procs :
    (pc[p] \in Final /\ Printed(p, "Download complete, extracting library...")) =>
      /\ Printed(p, "Extraction complete!") <=> exc[p] = NoExc
      /\ exc[p] # NoExc =>
           /\ exc[p].type = "FileNotFoundError"
           /\ exc[p].line \in CopyLines \cup {"l82"}

\* a run one of whose tools failed has printed "Extraction complete!"
C6_Witness ==
  \E p \in Procs :
    /\ pc[p] = "done" /\ SomeToolFailed(p)
    /\ Printed(p, "Extraction complete!")

\* C7 as claimed: a run one of whose tools failed ends at its copy step with
\* FileNotFoundError, the copy source being absent, and installs nothing.
C7_ToolFailureFailsAtCopy ==
  \A p \in Procs :
    (pc[p] \in Final /\ SomeToolFailed(p) /\ Latest(p)) =>
      /\ pc[p] = "raised"
      /\ exc[p].type = "FileNotFoundError" /\ exc[p].line \in CopyLines
      /\ ~IsFile(LibSource(os[p]))
      /\ Untouched(p, Installed(os[p]))

\* C7 as amended: no os.system line ever ends a run.  A run one of whose tools
\* failed ends in one of three ways: at its copy step with FileNotFoundError,
\* the copy source being absent; for macos, at line 82 with FileNotFoundError,
\* the installer directory being absent; in both it installs nothing.  Or the
\* copy source is there all the same (from an earlier run) and the run installs
\* it and completes.
C7_ToolFailureUndetected ==
  \A p \in Procs :
    /\ exc[p].line \notin ToolLines
    /\ (pc[p] \in Final /\ SomeToolFailed(p) /\ Latest(p)) =>
         \/ /\ pc[p] = "raised"
            /\ exc[p].type = "FileNotFoundError" /\ exc[p].line \in CopyLines
            /\ ~IsFile(LibSource(os[p]))
            /\ Untouched(p, Installed(os[p]))
         \/ /\ pc[p] = "raised" /\ os[p] = "macos"
            /\ exc[p] = [type |-> "FileNotFoundError", line |-> "l82"]
            /\ Abs(CacheDir, InstallerDir) \notin dirs
            /\ Untouched(p, Installed(os[p]))
         \/ /\ pc[p] = "done"
            /\ IsFile(LibSource(os[p]))
            /\ files[Installed(os[p])] = files[LibSource(os[p])]

\* a run whose tool failed has ended at its copy step
C7_Witness ==
  \E p \in Procs :
    /\ pc[p] = "raised" /\ SomeToolFailed(p)
    /\ exc[p].line \in CopyLines
    /\ ~IsFile(Installed(os[p]))

\* C8: a run terminated during its download leaves a cache file that holds a
\* part of the body; every later run for that platform finds it, issues no HTTP
\* request, leaves the file as it is and runs its extraction against it.
C8_PartialFileTrusted ==
  \A p, q \in Procs :
    (p < q /\ pc[p] = "killed" /\ Valid(q) /\ os[q] = os[p]) =>
      /\ IsFile(filepath(os[p]))
      /\ files[filepath(os[p])]
           = SubSeq(resp[p].body, 1, Len(files[filepath(os[p])]))
      /\ CachedAtStart(q)
      /\ requests[q] = 0
      /\ Untouched(q, filepath(os[q]))
      /\ pc[q] \in Final => toolrc[q] # <<>>

\* a run was terminated with a part of the body on disk, and a later run for
\* the platform is over
C8_Witness ==
  \E p, q \in Procs :
    /\ p < q /\ pc[p] = "killed" /\ os[q] = os[p]
    /\ Len(files[filepath(os[p])]) > 0
    /\ Len(files[filepath(os[p])]) < Len(resp[p].body)
    /\ pc[q] \in {"done", "raised"}
    /\ toolrc[q] # <<>>

\* C9: nothing makes a run wait for another: whatever the other run is doing,
\* a run in progress can take its next step.
C9_NoMutualExclusion ==
  \A p \in Procs : Running(p) => ENABLED Step(p)

\* both runs passed the check with the file absent, both issued a request and
\* both have written into the one cache file
C9_Witness ==
  /\ pc[1] = "l59" /\ pc[2] = "l59"
  /\ os[1] = os[2]
  /\ requests[1] = 1 /\ requests[2] = 1
  /\ fpos[1] > 0 /\ fpos[2] > 0

\* the other interleaving of C9: a run found the file another run had opened,
\* skipped the download and ran its tool while the other was still writing
C9_ExtractsWhileWriting ==
  \E p, q \in Procs :
    /\ pc[p] = "l59" /\ Unread(p) # <<>>
    /\ os[q] = os[p]
    /\ requests[q] = 0
    /\ Printed(q, "File already exists, skipping download")
    /\ toolrc[q] # <<>>

\* C10: a linux run never leaves the directory it was started in; a windows or
\* macos run is elsewhere only from its chdir into the cache directory to its
\* chdir back (in the cache directory, and for macos line 83 and 84 in the
\* installer directory below it); every run is back in the directory it was
\* started in when it copies, and the copy lands there.
C10_CwdRestoredBeforeCopy ==
  \A p \in Procs :
    /\ os[p] = "linux" => cwd[p] = <<>>
    /\ (cwd[p] # <<>> /\ pc[p] # "raised") =>
         \/ os[p] = "windows" /\ pc[p] \in {"l74", "l75"} /\ cwd[p] = CacheDir
         \/ os[p] = "macos" /\ pc[p] \in {"l80", "l81", "l82"} /\ cwd[p] = CacheDir
         \/ os[p] = "macos" /\ pc[p] \in {"l83", "l84"}
              /\ cwd[p] = CacheDir \o InstallerDir
    /\ (cwd[p] # <<>> /\ pc[p] = "raised") => exc[p].line = "l82"
    /\ AtOrPastCopy(p) => cwd[p] = <<>>
    /\ (pc[p] \in {"l86", "done"} /\ Latest(p)) =>
         /\ IsFile(Installed(os[p]))
         /\ files[Installed(os[p])] = files[LibSource(os[p])]

\* a macos run is over and its library is in the directory it was started in
C10_Witness ==
  \E p \in Procs :
    /\ os[p] = "macos" /\ pc[p] = "done"
    /\ cwd[p] = <<>> /\ oldpwd[p] = <<>>
    /\ IsFile(<<"libwkhtmltox.0.dylib">>)

====
